---- MODULE Spec2Model ----
(***************************************************************************)
(* Model of src/encode.py: the Huffman codec that renders its bit stream   *)
(* over the two symbols 结 (bit 1) and 婚 (bit 0).                          *)
(*                                                                         *)
(* Representation.  A Python str of '0'/'1' characters is a sequence over  *)
(* {0,1}; a str of 结/婚 is a sequence over {SYMBOL_ONE, SYMBOL_ZERO}; a    *)
(* text is a sequence of symbols of Alphabet; bytes are sequences over     *)
(* 0..255.  A dict is a sequence of <<key, value>> pairs in insertion      *)
(* order (the order pickle.dumps and dict.items() walk).  Positions in the *)
(* heap operators are the 0-based positions of heapq; the sequence index   *)
(* is position + 1.                                                        *)
(***************************************************************************)
EXTENDS Integers, Sequences, FiniteSets, TLC

VARIABLES
    pc,             \* where the program is: see the actions
    text,           \* encrypt_text: its argument
    heap,           \* build_huffman_tree: the priority queue
    merges,         \* build_huffman_tree: iterations of the while loop so far
    codes,          \* encrypt_text: the code table
    encrypted,      \* encrypt_text: its result
    received,       \* decrypt_text: its argument
    padding,        \* decrypt_text: locals, Unset until assigned
    codes_length,
    codes_bits,
    encoded_bits,
    reverse_codes,
    decoded_text,
    current_code,
    walked,         \* decrypt_text: payload bits the for loop has consumed
    outcome         \* decrypt_text: what it returned or that it raised

vars == <<pc, text, heap, merges, codes, encrypted, received, padding,
          codes_length, codes_bits, encoded_bits, reverse_codes,
          decoded_text, current_code, walked, outcome>>

\* ---------------------------------------------------------------- bounds
MaxTextLen == 4
MaxRun == 8
MaxCut == 2
MaxShift == 1

\* ------------------------------------------------------ program constants
SYMBOL_ONE == "jie"
SYMBOL_ZERO == "hun"
PaddingBits == 3
LengthBits == 32
ByteBits == 8

\* The characters a text is drawn from: two ASCII letters and 婚 itself
\* (a three-byte UTF-8 character).
Alphabet == {"a", "b", "hun"}

None == "None"

\* UTF-8 encoding of one character, as pickle writes a str.
Utf8(c) ==
    CASE c = "a" -> <<97>>
      [] c = "b" -> <<98>>
      [] c = "hun" -> <<229, 169, 154>>

\* ------------------------------------------------------- general helpers
\* The sequence f as an explicit tuple (element i is f[i]).
AsTuple(f) == SubSeq(f, 1, Len(f))

RECURSIVE Flatten(_)
Flatten(ss) ==
    IF ss = <<>> THEN <<>> ELSE Head(ss) \o Flatten(Tail(ss))

\* format(n, '0<w>b'): at least w binary digits, most significant first;
\* Python widens the field when n does not fit in w digits.
RECURSIVE BinDigits(_)
BinDigits(n) ==
    IF n < 2 THEN <<n>> ELSE Append(BinDigits(n \div 2), n % 2)

RECURSIVE Zeros(_)
Zeros(n) ==
    IF n <= 0 THEN <<>> ELSE <<0>> \o Zeros(n - 1)

format(n, w) ==
    LET d == BinDigits(n) IN Zeros(w - Len(d)) \o d

\* int(bits, 2) of a non-empty string of binary digits.
RECURSIVE int2(_)
int2(bits) ==
    IF bits = <<>> THEN 0
    ELSE (2 * int2(SubSeq(bits, 1, Len(bits) - 1))) + bits[Len(bits)]

\* ------------------------------------------------------------ HuffmanNode
HuffmanNode(char, freq) == [char |-> char, freq |-> freq, kids |-> <<>>]

\* The comparison turned round: a max-heap.
NodeGt(x, y) == x.freq > y.freq

\* HuffmanNode.__lt__
NodeLt(x, y) == x.freq < y.freq

\* ------------------------------------------------------------------ heapq
RECURSIVE siftdown(_, _, _, _)
siftdown(h, startpos, pos, newitem) ==
    IF pos > startpos
    THEN LET parentpos == (pos - 1) \div 2
             parent == h[parentpos + 1]
         IN  IF NodeLt(newitem, parent)
             THEN siftdown([h EXCEPT ![pos + 1] = parent], startpos, parentpos, newitem)
             ELSE [h EXCEPT ![pos + 1] = newitem]
    ELSE [h EXCEPT ![pos + 1] = newitem]

RECURSIVE siftup_loop(_, _, _, _)
siftup_loop(h, startpos, pos, newitem) ==
    LET endpos == Len(h)
        childpos == 2 * pos + 1
        rightpos == childpos + 1
        pick == IF rightpos < endpos /\ ~NodeLt(h[childpos + 1], h[rightpos + 1])
                THEN rightpos ELSE childpos
    IN  IF childpos < endpos
        THEN siftup_loop([h EXCEPT ![pos + 1] = h[pick + 1]], startpos, pick, newitem)
        ELSE siftdown([h EXCEPT ![pos + 1] = newitem], startpos, pos, newitem)

siftup(h, pos) == siftup_loop(h, pos, pos, h[pos + 1])

RECURSIVE heapify_from(_, _)
heapify_from(h, i) ==
    IF i < 0 THEN h ELSE heapify_from(siftup(h, i), i - 1)

heapify(h) == heapify_from(h, (Len(h) \div 2) - 1)

heappush(h, item) ==
    LET h1 == Append(h, item) IN siftdown(h1, 0, Len(h1) - 1, item)

\* heappop returns the pair <<item, heap after the pop>>.
heappop(h) ==
    LET lastelt == h[Len(h)]
        rest == SubSeq(h, 1, Len(h) - 1)
    IN  IF rest # <<>>
        THEN <<rest[1], siftup([rest EXCEPT ![1] = lastelt], 0)>>
        ELSE <<lastelt, rest>>

\* ---------------------------------------------------- build_huffman_tree
\* Counter(text).items(): <<char, count>>, one pair per distinct character,
\* in order of first occurrence.
Counter(t) ==
    LET IsFirst(i) == \A j \in 1..(i - 1) : t[j] # t[i]
        firsts == SelectSeq(AsTuple([i \in 1..Len(t) |-> i]), IsFirst)
        count(c) == Cardinality({j \in 1..Len(t) : t[j] = c})
    IN  AsTuple([n \in 1..Len(firsts) |-> <<t[firsts[n]], count(t[firsts[n]])>>])

RECURSIVE NodeList(_)
\* heap = [HuffmanNode(char, freq) for char, freq in frequency.items()]
NodeList(frequency) ==
    IF frequency = <<>> THEN <<>>
    ELSE NodeList(SubSeq(frequency, 1, Len(frequency) - 1))
         \o <<HuffmanNode(frequency[Len(frequency)][1], frequency[Len(frequency)][2])>>

InitialHeap(t) == heapify(NodeList(Counter(t)))

\* One iteration of the while loop: pop left, pop right, push merged.
MergeStep(h) ==
    LET p1 == heappop(h)
        left == p1[1]
        p2 == heappop(p1[2])
        right == p2[1]
        merged == [char |-> None, freq |-> left.freq + right.freq,
                   kids |-> <<left, right>>]
    IN  heappush(p2[2], merged)

\* ------------------------------------------------------------ build_codes
\* build_codes without the "0" given to a root that is a leaf.
RECURSIVE build_codes_no_fallback(_, _)
build_codes_no_fallback(root, current) ==
    IF root.char # None
    THEN <<<<root.char, current>>>>
    ELSE build_codes_no_fallback(root.kids[1], Append(current, 0))
         \o build_codes_no_fallback(root.kids[2], Append(current, 1))

RECURSIVE build_codes(_, _)
build_codes(root, current) ==
    IF root.char # None
    THEN <<<<root.char, IF current # <<>> THEN current ELSE <<0>>>>>>
    ELSE build_codes(root.kids[1], Append(current, 0))
         \o build_codes(root.kids[2], Append(current, 1))

\* codes[char]
Lookup(d, k) == d[CHOOSE i \in 1..Len(d) : d[i][1] = k][2]

HasKey(d, k) == \E i \in 1..Len(d) : d[i][1] = k

\* ------------------------------------------------ pickle.dumps / b64encode
\* n as `width` little-endian bytes.
RECURSIVE LittleEndian(_, _)
LittleEndian(n, width) ==
    IF width = 0 THEN <<>> ELSE <<n % 256>> \o LittleEndian(n \div 256, width - 1)

\* SHORT_BINUNICODE <len> <utf-8 bytes>, MEMOIZE
PickleStr(bytes) == <<140, Len(bytes)>> \o bytes \o <<148>>

PickleItem(item) ==
    PickleStr(Utf8(item[1]))
    \o PickleStr(AsTuple([i \in 1..Len(item[2]) |-> 48 + item[2][i]]))

\* pickle.dumps(codes) at the default protocol 4 for a dict of str -> str
\* whose strings are all distinct objects:
\* PROTO 4, FRAME <8-byte length>, EMPTY_DICT, MEMOIZE, then one item and
\* SETITEM, or MARK, the items and SETITEMS, then STOP.
pickle_dumps(d) ==
    LET items == Flatten([i \in 1..Len(d) |-> PickleItem(d[i])])
        body == <<125, 148>>
                \o (IF Len(d) = 1 THEN items \o <<115>>
                    ELSE <<40>> \o items \o <<117>>)
                \o <<46>>
    IN  <<128, 4, 149>> \o LittleEndian(Len(body), 8) \o body

\* The base64 alphabet: index 0..63 -> ASCII code.
B64Char(i) ==
    IF i < 26 THEN 65 + i
    ELSE IF i < 52 THEN 97 + (i - 26)
    ELSE IF i < 62 THEN 48 + (i - 52)
    ELSE IF i = 62 THEN 43 ELSE 47

\* ASCII code -> index 0..63, or 64 for a character outside the alphabet.
B64Val(ch) ==
    IF ch >= 65 /\ ch <= 90 THEN ch - 65
    ELSE IF ch >= 97 /\ ch <= 122 THEN ch - 97 + 26
    ELSE IF ch >= 48 /\ ch <= 57 THEN ch - 48 + 52
    ELSE IF ch = 43 THEN 62
    ELSE IF ch = 47 THEN 63 ELSE 64

B64Pad == 61

\* base64.b64encode(bytes).decode('ascii'), as the ASCII codes of its chars.
b64encode(bytes) ==
    LET n == Len(bytes)
        groups == (n + 2) \div 3
        at(i) == IF i <= n THEN bytes[i] ELSE 0
        quad(g) ==
            LET b1 == at(3 * g - 2)
                b2 == at(3 * g - 1)
                b3 == at(3 * g)
                have == n - 3 * (g - 1)
            IN  << B64Char(b1 \div 4),
                   B64Char(((b1 % 4) * 16) + (b2 \div 16)),
                   IF have >= 2 THEN B64Char(((b2 % 16) * 4) + (b3 \div 64)) ELSE B64Pad,
                   IF have >= 3 THEN B64Char(b3 % 64) ELSE B64Pad >>
    IN  Flatten([g \in 1..groups |-> quad(g)])

\* ''.join(format(ord(c), '08b') for c in codes_base64)
CharsToBits(chars) == Flatten([i \in 1..Len(chars) |-> format(chars[i], ByteBits)])

\* ------------------------------------------------------------ encrypt_text
\* The padding count without its outer mod 8.
PaddingNoWrap(n) == ByteBits - (n % ByteBits)

\* padding = (8 - len(full_bits) % 8) % 8
Padding(n) == (ByteBits - (n % ByteBits)) % ByteBits

\* full_bits.replace('1', '结').replace('0', '婚')
Render(bits) ==
    AsTuple([i \in 1..Len(bits) |-> IF bits[i] = 1 THEN SYMBOL_ONE ELSE SYMBOL_ZERO])

\* The two symbols of the sentinel in the other order.
SentinelSwapped == <<SYMBOL_ONE, SYMBOL_ZERO>>

Sentinel == <<SYMBOL_ZERO, SYMBOL_ONE>>

\* ''.join(codes[char] for char in text)
EncodeBits(t, d) == Flatten([i \in 1..Len(t) |-> Lookup(d, t[i])])

\* Lines 88-115 of encrypt_text, for a non-empty text and its code table.
Pack(t, d) ==
    LET payload == EncodeBits(t, d)
        codes_base64 == b64encode(pickle_dumps(d))
        cbits == CharsToBits(codes_base64)
        length_info == format(Len(cbits), LengthBits)
        full_bits == length_info \o cbits \o payload
        npad == Padding(Len(full_bits))
        padded == full_bits \o Zeros(npad)
        padding_info == format(npad, PaddingBits)
    IN  Render(padding_info \o padded)

\* The early return taken for a one-character text too.
AtMostOneChar(t) == Len(t) <= 1

\* The early return of encrypt_text for the empty text.
EmptyText(t) == t = <<>>

\* ------------------------------------------------------------ decrypt_text
\* encrypted.replace('结', '1').replace('婚', '0')
Unrender(m) ==
    AsTuple([i \in 1..Len(m) |-> IF m[i] = SYMBOL_ONE THEN 1 ELSE 0])

\* The sentinel recognised by its length alone.
IsSentinelByLength(m) == Len(m) = Len(Sentinel)

\* encrypted == "婚结"
IsSentinel(m) == m = Sentinel

\* The padding left in place.
StripPaddingNone(bits, n) == bits

\* The padding taken from the front: bits[padding:]
StripPaddingFront(bits, n) == SubSeq(bits, n + 1, Len(bits))

\* bits[:-padding]
StripPadding(bits, n) == SubSeq(bits, 1, Len(bits) - n)

\* Lines 129-160: the checks and the split of the message into its fields.
\* status is "error" (a ValueError is raised), "sentinel" (the early return
\* of the empty string) or "ok".
DecryptHeader(m) ==
    LET bits0 == Unrender(m)
        npad == int2(SubSeq(bits0, 1, PaddingBits))
        bits1 == SubSeq(bits0, PaddingBits + 1, Len(bits0))
        bits2 == IF npad > 0 THEN StripPadding(bits1, npad) ELSE bits1
        clen == int2(SubSeq(bits2, 1, LengthBits))
        bits3 == SubSeq(bits2, LengthBits + 1, Len(bits2))
        fail == [status |-> "error", padding |-> 0, codes_length |-> 0,
                 codes_bits |-> <<>>, encoded_bits |-> <<>>]
    IN  IF Len(m) < 1 THEN fail
        ELSE IF IsSentinel(m) THEN [fail EXCEPT !.status = "sentinel"]
        ELSE IF Len(bits0) < PaddingBits THEN fail
        ELSE IF npad > 0 /\ Len(bits1) < npad THEN fail
        ELSE IF Len(bits2) < LengthBits THEN fail
        ELSE IF Len(bits3) < clen THEN fail
        ELSE [status |-> "ok", padding |-> npad, codes_length |-> clen,
              codes_bits |-> SubSeq(bits3, 1, clen),
              encoded_bits |-> SubSeq(bits3, clen + 1, Len(bits3))]

\* Lines 163-168: one character per complete group of 8 bits.
BitsToChars(cbits) ==
    AsTuple([i \in 1..(Len(cbits) \div ByteBits) |->
                int2(SubSeq(cbits, (ByteBits * (i - 1)) + 1, ByteBits * i))])

\* binascii.a2b_base64 in its default non-strict mode.  Characters outside
\* the alphabet are skipped.  A pad character ends the parse when the data
\* characters before it leave a group of 2 or 3 and it, with the pads that
\* directly precede it in that group, fills the group.  When no pad ends the
\* parse, the data characters must come in whole groups of 4.
\* The result is <<ok, bytes>>.
IsB64Data(ch) == B64Val(ch) < 64

a2b_base64(s) ==
    LET dataBefore(i) == Cardinality({j \in 1..(i - 1) : IsB64Data(s[j])})
        quad_pos(i) == dataBefore(i) % 4
        lastData(i) == IF \E j \in 1..(i - 1) : IsB64Data(s[j])
                       THEN CHOOSE j \in 1..(i - 1) :
                                /\ IsB64Data(s[j])
                                /\ \A k \in (j + 1)..(i - 1) : ~IsB64Data(s[k])
                       ELSE 0
        pads(i) == Cardinality({j \in (lastData(i) + 1)..i : s[j] = B64Pad})
        ends(i) == /\ s[i] = B64Pad
                   /\ quad_pos(i) >= 2
                   /\ quad_pos(i) + pads(i) >= 4
        stopped == \E i \in 1..Len(s) : ends(i)
        stop == IF stopped
                THEN CHOOSE i \in 1..Len(s) : ends(i) /\ \A j \in 1..(i - 1) : ~ends(j)
                ELSE Len(s) + 1
        data == SelectSeq(SubSeq(s, 1, stop - 1), IsB64Data)
        n == Len(data)
        v(k) == B64Val(data[k])
        nbytes == (3 * (n \div 4)) + (IF n % 4 >= 2 THEN (n % 4) - 1 ELSE 0)
        byte(k) ==
            LET g == 4 * ((k - 1) \div 3)
                r == (k - 1) % 3
            IN  IF r = 0 THEN (v(g + 1) * 4) + (v(g + 2) \div 16)
                ELSE IF r = 1 THEN ((v(g + 2) % 16) * 16) + (v(g + 3) \div 4)
                ELSE ((v(g + 3) % 4) * 64) + v(g + 4)
    IN  IF ~stopped /\ n % 4 # 0 THEN <<FALSE, <<>>>>
        ELSE <<TRUE, AsTuple([k \in 1..nbytes |-> byte(k)])>>

\* base64.b64decode(str): a non-ASCII character is a ValueError.
b64decode(chars) ==
    IF \E i \in 1..Len(chars) : chars[i] >= 128 THEN <<FALSE, <<>>>>
    ELSE a2b_base64(chars)

\* Little-endian bytes -> number.
RECURSIVE FromLittleEndian(_)
FromLittleEndian(bytes) ==
    IF bytes = <<>> THEN 0 ELSE bytes[1] + (256 * FromLittleEndian(Tail(bytes)))

\* The character whose UTF-8 encoding is `bytes`.
FromUtf8(bytes) == CHOOSE c \in Alphabet : Utf8(c) = bytes

\* A SHORT_BINUNICODE + MEMOIZE at position i of b: <<ok, bytes, next i>>.
UnpickleStr(b, i) ==
    IF i + 1 <= Len(b) /\ b[i] = 140 /\ i + 2 + b[i + 1] <= Len(b)
       /\ b[i + 2 + b[i + 1]] = 148
    THEN <<TRUE, SubSeq(b, i + 2, i + 1 + b[i + 1]), i + 3 + b[i + 1]>>
    ELSE <<FALSE, <<>>, i>>

\* A key and a value at position i of b: <<ok, <<char, code>>, next i>>.
UnpickleItem(b, i) ==
    LET k == UnpickleStr(b, i)
        v == UnpickleStr(b, k[3])
    IN  IF k[1] /\ v[1]
           /\ (\E c \in Alphabet : Utf8(c) = k[2])
           /\ (\A j \in 1..Len(v[2]) : v[2][j] \in {48, 49})
        THEN <<TRUE, <<FromUtf8(k[2]), AsTuple([j \in 1..Len(v[2]) |-> v[2][j] - 48])>>, v[3]>>
        ELSE <<FALSE, <<>>, i>>

\* The items between MARK and SETITEMS, then STOP: <<ok, dict>>.
RECURSIVE UnpickleItems(_, _, _)
UnpickleItems(b, i, acc) ==
    IF i + 1 <= Len(b) /\ b[i] = 117 THEN <<b[i + 1] = 46, acc>>
    ELSE LET it == UnpickleItem(b, i)
         IN  IF it[1] THEN UnpickleItems(b, it[3], Append(acc, it[2]))
             ELSE <<FALSE, <<>>>>

\* pickle.loads(bytes) on the streams pickle_dumps writes (bytes after STOP
\* are ignored), and on their truncations, which raise: <<ok, dict>>.
pickle_loads(b) ==
    IF Len(b) < 11 \/ SubSeq(b, 1, 3) # <<128, 4, 149>> THEN <<FALSE, <<>>>>
    ELSE LET n == FromLittleEndian(SubSeq(b, 4, 11))
             body == SubSeq(b, 12, 11 + n)
         IN  IF Len(b) < 11 + n \/ n < 3 \/ SubSeq(body, 1, 2) # <<125, 148>>
             THEN <<FALSE, <<>>>>
             ELSE IF body[3] = 40 THEN UnpickleItems(body, 4, <<>>)
             ELSE LET it == UnpickleItem(body, 3)
                  IN  IF it[1] /\ it[3] + 1 <= Len(body)
                         /\ body[it[3]] = 115 /\ body[it[3] + 1] = 46
                      THEN <<TRUE, <<it[2]>>>>
                      ELSE <<FALSE, <<>>>>

\* Lines 162-178: the code table read back from the codebook bits, reversed
\* to code -> char: <<ok, reverse_codes>>.
LoadCodes(cbits) ==
    LET decoded == b64decode(BitsToChars(cbits))
        loaded == IF decoded[1] THEN pickle_loads(decoded[2]) ELSE <<FALSE, <<>>>>
    IN  IF loaded[1]
        THEN <<TRUE, AsTuple([i \in 1..Len(loaded[2]) |-> <<loaded[2][i][2], loaded[2][i][1]>>])>>
        ELSE <<FALSE, <<>>>>

\* ------------------------------------------------------------------ inputs
RECURSIVE TextsUpTo(_)
TextsUpTo(n) ==
    IF n = 0 THEN {<<>>}
    ELSE LET shorter == TextsUpTo(n - 1)
         IN  shorter \cup {Append(t, c) : t \in {u \in shorter : Len(u) = n - 1},
                                          c \in Alphabet}

RECURSIVE Run(_, _)
Run(c, n) == IF n = 0 THEN <<>> ELSE Append(Run(c, n - 1), c)

\* Every text of at most MaxTextLen characters, and one character repeated
\* up to MaxRun times.
Texts == TextsUpTo(MaxTextLen) \cup {Run("a", n) : n \in 1..MaxRun}

HeaderBits == PaddingBits + LengthBits

Min(x, y) == IF x < y THEN x ELSE y

Prefix(m, n) == SubSeq(m, 1, n)

\* m with its padding field and its length field overwritten.
SetHeader(m, p, L) ==
    Render(format(p, PaddingBits) \o format(L, LengthBits))
    \o SubSeq(m, HeaderBits + 1, Len(m))

LengthField(m) == int2(SubSeq(Unrender(m), PaddingBits + 1, HeaderBits))

\* The messages decrypt_text is called with: the encoder's output, its short
\* prefixes, its truncations by a few symbols, and its copies with another
\* padding count or a shifted codebook length.
Messages(m) ==
    {m}
    \cup {Prefix(m, n) : n \in 0..Min(Len(m), HeaderBits + MaxCut)}
    \cup {Prefix(m, Len(m) - c) : c \in 1..Min(Len(m), MaxCut)}
    \cup (IF Len(m) < HeaderBits THEN {}
          ELSE {SetHeader(m, p, LengthField(m) + (4 * d)) :
                    p \in 0..7, d \in (0 - (2 * MaxShift))..(2 * MaxShift)})

Unset == 0 - 1
NoOutcome == [kind |-> "none", text |-> <<>>]
Raised == [kind |-> "error", text |-> <<>>]
Returned(t) == [kind |-> "ok", text |-> t]

\* ------------------------------------------------------------------ actions
Init ==
    /\ pc = "encrypt"
    /\ text \in Texts
    /\ heap = <<>>
    /\ merges = 0
    /\ codes = <<>>
    /\ encrypted = <<>>
    /\ received = <<>>
    /\ padding = Unset
    /\ codes_length = Unset
    /\ codes_bits = <<>>
    /\ encoded_bits = <<>>
    /\ reverse_codes = <<>>
    /\ decoded_text = <<>>
    /\ current_code = <<>>
    /\ walked = 0
    /\ outcome = NoOutcome

decoderVars == <<received, padding, codes_length, codes_bits, encoded_bits,
                 reverse_codes, decoded_text, current_code, walked, outcome>>

\* encrypt_text("")
EncryptEmpty ==
    /\ pc = "encrypt"
    /\ EmptyText(text)
    /\ encrypted' = Sentinel
    /\ pc' = "encrypted"
    /\ UNCHANGED <<text, heap, merges, codes, decoderVars>>

\* build_huffman_tree up to its while loop
BuildHeap ==
    /\ pc = "encrypt"
    /\ ~EmptyText(text)
    /\ heap' = InitialHeap(text)
    /\ merges' = 0
    /\ pc' = "merge"
    /\ UNCHANGED <<text, codes, encrypted, decoderVars>>

\* one iteration of the while loop of build_huffman_tree
Merge ==
    /\ pc = "merge"
    /\ Len(heap) > 1
    /\ heap' = MergeStep(heap)
    /\ merges' = merges + 1
    /\ UNCHANGED <<pc, text, codes, encrypted, decoderVars>>

\* the loop exit, build_codes and the rest of encrypt_text
EncryptFinish ==
    /\ pc = "merge"
    /\ ~(Len(heap) > 1)
    /\ codes' = build_codes(heap[1], <<>>)
    /\ encrypted' = Pack(text, codes')
    /\ pc' = "encrypted"
    /\ UNCHANGED <<text, heap, merges, decoderVars>>

\* the caller hands a message to decrypt_text
Call ==
    /\ pc = "encrypted"
    /\ received' \in Messages(encrypted)
    /\ pc' = "decrypt"
    /\ UNCHANGED <<text, heap, merges, codes, encrypted, padding, codes_length,
                   codes_bits, encoded_bits, reverse_codes, decoded_text,
                   current_code, walked, outcome>>

\* decrypt_text, lines 129-160
DecryptStart ==
    /\ pc = "decrypt"
    /\ LET h == DecryptHeader(received)
       IN  \/ /\ h.status = "error"
              /\ outcome' = Raised
              /\ pc' = "done"
              /\ UNCHANGED <<padding, codes_length, codes_bits, encoded_bits>>
           \/ /\ h.status = "sentinel"
              /\ outcome' = Returned(<<>>)
              /\ pc' = "done"
              /\ UNCHANGED <<padding, codes_length, codes_bits, encoded_bits>>
           \/ /\ h.status = "ok"
              /\ padding' = h.padding
              /\ codes_length' = h.codes_length
              /\ codes_bits' = h.codes_bits
              /\ encoded_bits' = h.encoded_bits
              /\ pc' = "codebook"
              /\ UNCHANGED outcome
    /\ UNCHANGED <<text, heap, merges, codes, encrypted, received,
                   reverse_codes, decoded_text, current_code, walked>>

\* decrypt_text, lines 162-182
DecryptCodebook ==
    /\ pc = "codebook"
    /\ LET r == LoadCodes(codes_bits)
       IN  \/ /\ ~r[1]
              /\ outcome' = Raised
              /\ pc' = "done"
              /\ UNCHANGED reverse_codes
           \/ /\ r[1]
              /\ reverse_codes' = r[2]
              /\ pc' = "walk"
              /\ UNCHANGED outcome
    /\ UNCHANGED <<text, heap, merges, codes, encrypted, received, padding,
                   codes_length, codes_bits, encoded_bits, decoded_text,
                   current_code, walked>>

\* one iteration of the for loop of decrypt_text, lines 183-187
DecryptBit ==
    /\ pc = "walk"
    /\ walked < Len(encoded_bits)
    /\ LET candidate == Append(current_code, encoded_bits[walked + 1])
       IN  IF HasKey(reverse_codes, candidate)
           THEN /\ decoded_text' = Append(decoded_text, Lookup(reverse_codes, candidate))
                /\ current_code' = <<>>
           ELSE /\ current_code' = candidate
                /\ UNCHANGED decoded_text
    /\ walked' = walked + 1
    /\ UNCHANGED <<pc, text, heap, merges, codes, encrypted, received, padding,
                   codes_length, codes_bits, encoded_bits, reverse_codes, outcome>>

\* decrypt_text, line 189
DecryptReturn ==
    /\ pc = "walk"
    /\ ~(walked < Len(encoded_bits))
    /\ outcome' = Returned(decoded_text)
    /\ pc' = "done"
    /\ UNCHANGED <<text, heap, merges, codes, encrypted, received, padding,
                   codes_length, codes_bits, encoded_bits, reverse_codes,
                   decoded_text, current_code, walked>>

Next ==
    \/ EncryptEmpty
    \/ BuildHeap
    \/ Merge
    \/ EncryptFinish
    \/ Call
    \/ DecryptStart
    \/ DecryptCodebook
    \/ DecryptBit
    \/ DecryptReturn

Spec == Init /\ [][Next]_vars

\* --------------------------------------------------------------- properties
Symbols(t) == {t[i] : i \in 1..Len(t)}

IsPrefix(x, y) == Len(x) <= Len(y) /\ SubSeq(y, 1, Len(x)) = x

\* encrypt_text has returned
Encoded == pc \notin {"encrypt", "merge"}

\* decrypt_text is past its header checks (lines 129-160)
HeaderDone == pc \in {"codebook", "walk", "done"}

\* decrypt_text took the early return of line 133
TookSentinelReturn ==
    pc = "done" /\ outcome.kind = "ok" /\ padding = Unset

\* decrypt_text raised in lines 129-158
RaisedInHeader ==
    pc = "done" /\ outcome.kind = "error" /\ padding = Unset

PaddingField(m) == int2(SubSeq(Unrender(m), 1, PaddingBits))

\* C1: decrypt_text(encrypt_text(x)) returns exactly x, for the empty text, a
\* single character, a repeated character and several distinct characters;
\* the padding bits never decode to extra symbols.
C1_RoundTrip ==
    (pc = "done" /\ received = encrypted) => outcome = Returned(text)

\* A repeated character whose only code is "0", with padding bits present,
\* has been decoded from the encoder's own output.
C1_Witness ==
    /\ pc = "done"
    /\ received = encrypted
    /\ Len(text) > 1
    /\ codes = <<<<"a", <<0>>>>>>
    /\ padding > 0
    /\ outcome.kind = "ok"

\* C2: for a non-empty text, decrypt_text of encrypt_text(text) without its
\* last symbol raises an error; it never returns a text.
C2_TruncationRejected ==
    (/\ pc = "done"
     /\ text # <<>>
     /\ received = Prefix(encrypted, Len(encrypted) - 1))
        => outcome.kind = "error"

\* C3: when all payload bits are walked and the candidate code is not empty,
\* decrypt_text fails instead of returning the symbols decoded so far.
C3_LeftoverRejected ==
    (/\ pc = "done"
     /\ walked = Len(encoded_bits)
     /\ current_code # <<>>)
        => outcome.kind = "error"

\* C4: encrypt_text("") is exactly 婚结, and decrypt_text("婚结") returns the
\* empty string without reading a header, a codebook or a payload.
C4_SentinelExact ==
    /\ (Encoded /\ text = <<>>) => encrypted = <<"hun", "jie">>
    /\ (HeaderDone /\ received = <<"hun", "jie">>) =>
          /\ pc = "done"
          /\ outcome = Returned(<<>>)
          /\ padding = Unset /\ codes_length = Unset
          /\ codes_bits = <<>> /\ encoded_bits = <<>>
          /\ reverse_codes = <<>> /\ walked = 0

\* The empty text was encoded and its encoding decoded.
C4_Witness ==
    /\ pc = "done"
    /\ text = <<>>
    /\ received = encrypted
    /\ outcome = Returned(<<>>)

\* The messages C5 is about.
Malformed(m) ==
    \/ Len(m) = 0
    \/ m # <<"hun", "jie">> /\ Len(m) < 3
    \/ Len(m) >= 3 /\ Len(m) - 3 < 32
    \/ Len(m) >= 35 /\ Len(m) - 35 < LengthField(m)

\* C5: decrypt_text raises, and returns no text, for a message that is empty,
\* or is not the sentinel and shorter than 3 symbols, or has fewer than 32
\* bits after the padding field, or fewer than L bits after the length field.
C5_MalformedRejected ==
    (HeaderDone /\ Malformed(received)) => (pc = "done" /\ outcome = Raised)

\* A message with both header fields whose length field asks for more bits
\* than follow it was rejected.
C5_Witness ==
    /\ pc = "done"
    /\ Len(received) > 35
    /\ Len(received) - 35 < LengthField(received)
    /\ outcome = Raised

\* C6: the code table of a non-empty text has exactly one entry per distinct
\* symbol, every code is a non-empty string over {0,1}, no code is a prefix
\* of another, and a single distinct symbol gets the code "0".
C6_PrefixFree ==
    (Encoded /\ text # <<>>) =>
        /\ Len(codes) = Cardinality(Symbols(text))
        /\ \A c \in Symbols(text) :
              Cardinality({i \in 1..Len(codes) : codes[i][1] = c}) = 1
        /\ \A i \in 1..Len(codes) :
              /\ codes[i][2] # <<>>
              /\ \A j \in 1..Len(codes[i][2]) : codes[i][2][j] \in {0, 1}
        /\ \A i, j \in 1..Len(codes) :
              i # j => ~IsPrefix(codes[i][2], codes[j][2])
        /\ Cardinality(Symbols(text)) = 1 => codes[1][2] = <<0>>

\* A table of three codes, one of them two bits long, has been built.
C6_Witness ==
    /\ Encoded
    /\ Len(codes) = 3
    /\ \E i \in 1..Len(codes) : Len(codes[i][2]) = 2

\* C7: the bits of encrypt_text(text), text non-empty, are the 3-bit p, the
\* 32-bit L, L codebook bits, the codes of the symbols in input order, then
\* p zero bits, with p = (8 - (32 + L + payload length) mod 8) mod 8; the
\* message length minus 3 is a multiple of 8 and only 结 and 婚 occur.
C7_Layout ==
    (Encoded /\ text # <<>>) =>
        LET bits == Unrender(encrypted)
            p == PaddingField(encrypted)
            L == LengthField(encrypted)
            payload == EncodeBits(text, codes)
        IN  /\ \A i \in 1..Len(encrypted) : encrypted[i] \in {"jie", "hun"}
            /\ Len(encrypted) = 3 + 32 + L + Len(payload) + p
            /\ SubSeq(bits, 36, 35 + L) = CharsToBits(b64encode(pickle_dumps(codes)))
            /\ SubSeq(bits, 36 + L, 35 + L + Len(payload)) = payload
            /\ \A i \in (36 + L + Len(payload))..Len(bits) : bits[i] = 0
            /\ p = (8 - ((32 + L + Len(payload)) % 8)) % 8
            /\ (Len(encrypted) - 3) % 8 = 0

\* A message of three distinct symbols that ends in padding bits.
C7_Witness ==
    /\ Encoded
    /\ Len(codes) = 3
    /\ PaddingField(encrypted) > 0

\* The unpack order the specification gives: read p, read L, split off the
\* L codebook bits, then strip p bits from what remains.
UnpackInOrder(m) ==
    LET bits == Unrender(m)
        p == int2(SubSeq(bits, 1, 3))
        L == int2(SubSeq(bits, 4, 35))
        rest == SubSeq(bits, 36 + L, Len(bits))
        fail == [status |-> "error", padding |-> Unset, codes_length |-> Unset,
                 codes_bits |-> <<>>, encoded_bits |-> <<>>]
    IN  IF Len(m) = 0 THEN fail
        ELSE IF m = <<"hun", "jie">> THEN [fail EXCEPT !.status = "sentinel"]
        ELSE IF Len(bits) < 3 THEN fail
        ELSE IF Len(bits) - 3 < 32 THEN fail
        ELSE IF Len(bits) - 35 < L THEN fail
        ELSE IF Len(rest) < p THEN fail
        ELSE [status |-> "ok", padding |-> p, codes_length |-> L,
              codes_bits |-> SubSeq(bits, 36, 35 + L),
              encoded_bits |-> SubSeq(rest, 1, Len(rest) - p)]

\* C8: decrypt_text, which strips the p trailing bits before it reads the
\* length field, accepts exactly the messages the specified order accepts
\* and gets the same L, codebook bits and payload bits; the stripped bits
\* come from after the codebook, and a message with fewer than p bits after
\* its codebook is rejected.
C8_UnpackOrder ==
    HeaderDone =>
        LET u == UnpackInOrder(received)
        IN  /\ u.status = (IF TookSentinelReturn THEN "sentinel"
                           ELSE IF RaisedInHeader THEN "error" ELSE "ok")
            /\ u.padding = padding
            /\ u.codes_length = codes_length
            /\ u.codes_bits = codes_bits
            /\ u.encoded_bits = encoded_bits
            /\ padding # Unset =>
                  Len(received) = 35 + codes_length + Len(encoded_bits) + padding

\* A message that holds its whole codebook but fewer than p bits after it
\* was rejected.
C8_Witness ==
    /\ RaisedInHeader
    /\ Len(received) >= 35
    /\ Len(received) >= 35 + LengthField(received)
    /\ Len(received) - 35 - LengthField(received) < PaddingField(received)

\* C9: encrypt_text returns 婚结 only for the empty text; the message of a
\* non-empty text has at least 35 symbols, and decrypt_text does not take
\* the sentinel return on it.
C9_SentinelNoCollision ==
    /\ Encoded => ((encrypted = <<"hun", "jie">>) <=> (text = <<>>))
    /\ (Encoded /\ text # <<>>) => Len(encrypted) >= 35
    /\ (HeaderDone /\ text # <<>> /\ received = encrypted) => ~TookSentinelReturn

\* The encoding of a one-character text went through the generic decode.
C9_Witness ==
    /\ pc = "done"
    /\ Len(text) = 1
    /\ received = encrypted
    /\ padding # Unset
    /\ outcome.kind = "ok"

RECURSIVE SumFreq(_)
SumFreq(h) == IF h = <<>> THEN 0 ELSE Head(h).freq + SumFreq(Tail(h))

\* What holds of the heap during and after the merge loop.
MergeLoopInvariant ==
    LET k == Cardinality(Symbols(text))
    IN  /\ pc = "merge" =>
              /\ Len(heap) >= 1
              /\ Len(heap) + merges = k
              /\ SumFreq(heap) = Len(text)
              /\ merges = 0 => \A i \in 1..Len(heap) : heap[i].kids = <<>>
        /\ (Encoded /\ text # <<>>) =>
              /\ Len(heap) = 1
              /\ merges = k - 1
              /\ heap[1].freq = Len(text)
              /\ k = 1 => (heap[1].kids = <<>> /\ heap[1].char = text[1])

\* What one iteration of the merge loop does: two nodes of minimum weight
\* leave the heap and one node, their parent, of the sum of their weights,
\* enters it.
MergeLoopStep ==
    (pc = "merge" /\ merges' # merges) =>
        /\ merges' = merges + 1
        /\ Len(heap') = Len(heap) - 1
        /\ \E i, j \in 1..Len(heap) :
              /\ i # j
              /\ \A n \in 1..Len(heap) :
                    n \notin {i, j} =>
                       /\ heap[n].freq >= heap[i].freq
                       /\ heap[n].freq >= heap[j].freq
                       /\ \E m \in 1..Len(heap') : heap'[m] = heap[n]
              /\ \E m \in 1..Len(heap') :
                    /\ heap'[m].freq = heap[i].freq + heap[j].freq
                    /\ heap'[m].kids = <<heap[i], heap[j]>>

\* C10: the heap starts with k leaves; each iteration removes the two
\* minimum-weight nodes and inserts one of their summed weight; the loop ends
\* after exactly k - 1 merges with one root of weight len(text); for k = 1
\* no merge happens and the root is the leaf.  (The loop is sequential code:
\* it ends because every iteration shortens the heap by one, which never
\* becomes empty, so that at most k - 1 iterations can run.)
C10_MergeLoop ==
    /\ []MergeLoopInvariant
    /\ [][MergeLoopStep]_vars

\* Two merges have built the root of a text whose symbols differ in weight.
C10_Witness ==
    /\ pc = "encrypted"
    /\ merges = 2
    /\ Len(heap) = 1
    /\ heap[1].freq = 4

====
